---------------------------- MODULE Spec2Model ----------------------------
(***************************************************************************)
(* A model of ai-code-connect: the Gemini adapter (src/adapters/gemini.ts),*)
(* the configuration store (src/config.ts), and the session engine and     *)
(* orchestrator that spec.md describes.                                     *)
(*                                                                         *)
(* Text is a sequence of characters.  A character is a one-character       *)
(* string; characters that cannot be written in a TLA+ string are named:   *)
(* "ESC" (0x1B), "BEL" (0x07), "NL" (\n), "CR" (\r), "TAB", "DQ" (the      *)
(* double quote), "BSL" (the backslash) and "U+xxxx" for a Unicode code    *)
(* point.                                                                   *)
(***************************************************************************)
EXTENDS Integers, Sequences, FiniteSets, TLC

VARIABLES
    \* GeminiAdapter.cleanResponse applied to a raw terminal capture
    toks,               \* the pieces the raw capture was assembled from
    rawOutput,          \* the argument of cleanResponse
    cleaned,            \* cleanResponse(rawOutput)
    recleaned,          \* cleanResponse(cleaned)
    cpc,                \* "build" -> "cleaned" -> "recleaned"
    \* GeminiAdapter object
    hasActiveSession,   \* gemini.ts:27
    op,                 \* the last operation called on the adapter and its inputs
    ret,                \* what that operation returned or threw
    everSent,           \* history: a send has succeeded
    sentSinceReset,     \* history: a send has succeeded and no resetContext followed it
    everMarked,         \* history: a send has succeeded or setHasSession(true) was called
    markedSinceClear,   \* history: the same, with no resetContext/setHasSession(false) after it
    \* config.ts: the file system and the environment it reads
    dirExists,          \* existsSync(getConfigDir())
    fileContent,        \* the config file: absent, unparsable, or a JSON object
    envTool,            \* process.env.AIC_DEFAULT_TOOL, present or missing
    cfgOp,              \* the last config operation and its argument
    cfgRet,             \* its result
    fsCalls,            \* the file-system writes that operation made, in order
    defaults,           \* the DEFAULT_CONFIG object as it is in memory
    writtenTools,       \* history: the defaultTool of every config written so far
    \* PersistentSession (spec.md 3, 4.3, 5)
    lifecycle,          \* the state of the session's state machine
    pendingRequest,     \* the requests awaiting a boundary, oldest first
    outputBuffer,       \* characters accumulated since the last send
    ptyWrites,          \* the prompts written to the PTY, in order
    startClock,         \* time since the session was started
    idleClock,          \* time since the idle timer was last reset
    quietClock,         \* time since the last chunk arrived or the prompt was sent
    idleArmed,          \* whether the idle timer is running
    promptSeen,         \* whether a prompt line arrived since the spawn
    matchSeen,          \* whether a line of the current request matched promptPattern
    resolution,         \* how the current request was resolved
    sendResult,         \* the answer to the send made in the last step, "none" if none was
    \* SessionOrchestrator (spec.md 4.4)
    registry,           \* the registered tool names, in registration order
    activeTool,         \* the active tool
    inbox,              \* per tool, the last message sent into its session
    fwdResult           \* the outcome of the last meta-command

cleanVars == <<toks, rawOutput, cleaned, recleaned, cpc>>
adapterVars ==
    <<hasActiveSession, op, ret, everSent, sentSinceReset, everMarked, markedSinceClear>>
configVars ==
    <<dirExists, fileContent, envTool, cfgOp, cfgRet, fsCalls, defaults, writtenTools>>
sessionVars ==
    <<lifecycle, pendingRequest, outputBuffer, ptyWrites, startClock, idleClock, quietClock,
      idleArmed, promptSeen, matchSeen, resolution, sendResult>>
orchVars == <<registry, activeTool, inbox, fwdResult>>

vars == <<cleanVars, adapterVars, configVars, sessionVars, orchVars>>

\* what a step of one part of the program leaves alone
notClean == <<adapterVars, configVars, sessionVars, orchVars>>
notAdapter == <<cleanVars, configVars, sessionVars, orchVars>>
notConfig == <<cleanVars, adapterVars, sessionVars, orchVars>>
notSession ==
    <<cleanVars, configVars, orchVars, op, ret, everSent, sentSinceReset, everMarked,
      markedSinceClear>>
notOrch == <<cleanVars, adapterVars, configVars, sessionVars>>

-----------------------------------------------------------------------------
(* Characters and character classes of JavaScript regular expressions *)

ESC == "ESC"
BEL == "BEL"
NL == "NL"
CR == "CR"
MARK == "U+2726"     \* the response marker
CHECK == "U+2713"    \* tool status: success
CROSS == "U+2717"    \* tool status: failure

\* \n, \r, U+2028, U+2029: what "." does not match and where ^ and $ match under /m
LineTerminators == {NL, CR, "U+2028", "U+2029"}

\* \s, and what String.prototype.trim removes
WhiteSpace == {" ", "TAB", "U+000B", "U+000C", "U+00A0", "U+FEFF", "U+1680",
               "U+2000", "U+2001", "U+2002", "U+2003", "U+2004", "U+2005",
               "U+2006", "U+2007", "U+2008", "U+2009", "U+200A", "U+202F",
               "U+205F", "U+3000"} \cup LineTerminators

Digits == {"0", "1", "2", "3", "4", "5", "6", "7", "8", "9"}
LowerSeq == <<"a", "b", "c", "d", "e", "f", "g", "h", "i", "j", "k", "l", "m",
              "n", "o", "p", "q", "r", "s", "t", "u", "v", "w", "x", "y", "z">>
UpperSeq == <<"A", "B", "C", "D", "E", "F", "G", "H", "I", "J", "K", "L", "M",
              "N", "O", "P", "Q", "R", "S", "T", "U", "V", "W", "X", "Y", "Z">>
LowerCase == {LowerSeq[i] : i \in 1..Len(LowerSeq)}
UpperCase == {UpperSeq[i] : i \in 1..Len(UpperSeq)}
Letters == LowerCase \cup UpperCase
WordChars == Letters \cup Digits \cup {"_"}

\* one character of String.prototype.toLowerCase
LowerChar(c) ==
    IF c \in UpperCase THEN LowerSeq[CHOOSE i \in 1..Len(UpperSeq) : UpperSeq[i] = c] ELSE c
UpperChar(c) ==
    IF c \in LowerCase THEN UpperSeq[CHOOSE i \in 1..Len(LowerSeq) : LowerSeq[i] = c] ELSE c
\* String.prototype.toLowerCase
toLowerCase(s) == [i \in 1..Len(s) |-> LowerChar(s[i])]

\* gemini.ts:81
SpinnerFrames == {"U+280B", "U+2819", "U+2839", "U+2838", "U+283C", "U+2834",
                  "U+2826", "U+2827", "U+2807", "U+280F"}
\* gemini.ts:84
BoxDrawing == {"U+256D", "U+256E", "U+2570", "U+256F", "U+2502", "U+2500",
               "U+250C", "U+2510", "U+2514", "U+2518", "U+251C", "U+2524",
               "U+252C", "U+2534", "U+253C", "U+2551", "U+2550", "U+2554",
               "U+2557", "U+255A", "U+255D", "U+2560", "U+2563", "U+2566",
               "U+2569", "U+256C"}
\* gemini.ts:123  [\s (U+2502) (U+2500) (U+256D) (U+256E) (U+2570) (U+256F)]
GarbageChars == WhiteSpace \cup {"U+2502", "U+2500", "U+256D", "U+256E", "U+2570", "U+256F"}

-----------------------------------------------------------------------------
(* A regular expression is a sequence of items: an anchor, a literal, or a *)
(* character class with a quantifier ("1", "?", "*", "+"), all greedy, as  *)
(* in the patterns of gemini.ts.                                            *)

Cls(set, q) == [k |-> "cls", neg |-> FALSE, set |-> set, q |-> q, lit |-> <<>>]
NotCls(set, q) == [k |-> "cls", neg |-> TRUE, set |-> set, q |-> q, lit |-> <<>>]
Ch(c) == Cls({c}, "1")
Bol == [k |-> "bol", neg |-> FALSE, set |-> {}, q |-> "1", lit |-> <<>>]
Eol == [k |-> "eol", neg |-> FALSE, set |-> {}, q |-> "1", lit |-> <<>>]
\* a run of literal characters
Lit(cs) == <<[k |-> "lit", neg |-> FALSE, set |-> {}, q |-> "1", lit |-> cs]>>
\* a run of literal characters under the /i flag
LitI(cs) == <<[k |-> "liti", neg |-> FALSE, set |-> {}, q |-> "1", lit |-> cs]>>
Dot(q) == NotCls(LineTerminators, q)
Sp(q) == Cls(WhiteSpace, q)

InCls(it, c) == IF it.neg THEN c \notin it.set ELSE c \in it.set

Min(S) == CHOOSE x \in S : \A y \in S : x <= y
Max(S) == CHOOSE x \in S : \A y \in S : x >= y

\* ^ under /m: at the start of the text or right after a line terminator
AtBol(s, p) == p = 1 \/ s[p - 1] \in LineTerminators
\* $ under /m: at the end of the text or right before a line terminator
AtEol(s, p) == p = Len(s) + 1 \/ s[p] \in LineTerminators

\* whether the literal cs stands at position p of s
LitAt(cs, s, p, ignoreCase) ==
    /\ p + Len(cs) - 1 <= Len(s)
    /\ \A j \in 1..Len(cs) :
        IF ignoreCase THEN LowerChar(s[p + j - 1]) = LowerChar(cs[j])
        ELSE s[p + j - 1] = cs[j]

\* how many characters from position p on are in the class, at most cap
RunLen(it, s, p, cap) ==
    LET out == {j \in p..Len(s) : ~InCls(it, s[j])}
        run == (IF out = {} THEN Len(s) + 1 ELSE Min(out)) - p
    IN IF run > cap THEN cap ELSE run

RECURSIVE Match(_, _, _, _)
\* The position after the match of items i.. of re at position p of s, as a
\* backtracking matcher finds it (a greedy quantifier tries its longest run
\* first and gives back one character at a time); 0 when there is no match.
Match(re, i, s, p) ==
    IF i > Len(re) THEN p
    ELSE LET it == re[i] IN
         IF it.k = "bol" THEN (IF AtBol(s, p) THEN Match(re, i + 1, s, p) ELSE 0)
         ELSE IF it.k = "eol" THEN (IF AtEol(s, p) THEN Match(re, i + 1, s, p) ELSE 0)
         ELSE IF it.k \in {"lit", "liti"} THEN
             (IF LitAt(it.lit, s, p, it.k = "liti")
              THEN Match(re, i + 1, s, p + Len(it.lit)) ELSE 0)
         ELSE LET cap == IF it.q \in {"1", "?"} THEN 1 ELSE Len(s)
                  min == IF it.q \in {"1", "+"} THEN 1 ELSE 0
                  run == RunLen(it, s, p, cap)
                  ok == {n \in min..run : Match(re, i + 1, s, p + n) # 0}
              IN IF ok = {} THEN 0 ELSE Match(re, i + 1, s, p + Max(ok))

RECURSIVE ReplaceFrom(_, _, _, _)
\* the scan of a /g replace from position p on: the text up to the leftmost
\* match is kept, the match is replaced, and the scan goes on behind it
ReplaceFrom(re, s, p, rep) ==
    LET starts == {q \in p..Len(s) : Match(re, 1, s, q) > q} IN
    IF starts = {} THEN SubSeq(s, p, Len(s))
    ELSE LET q == Min(starts) IN
         SubSeq(s, p, q - 1) \o rep \o ReplaceFrom(re, s, Match(re, 1, s, q), rep)

\* String.prototype.replace(re, rep) with a /g pattern that matches no empty text
ReplaceAll(re, s, rep) == IF Len(s) = 0 THEN <<>> ELSE ReplaceFrom(re, s, 1, rep)

\* String.prototype.trim
Trim(s) ==
    LET ink == {j \in 1..Len(s) : s[j] \notin WhiteSpace} IN
    IF ink = {} THEN <<>> ELSE SubSeq(s, Min(ink), Max(ink))

RECURSIVE Split(_, _)
\* String.prototype.split(sep) for a one-character separator
Split(s, sep) ==
    IF \A i \in 1..Len(s) : s[i] # sep THEN <<s>>
    ELSE LET i == CHOOSE j \in 1..Len(s) : s[j] = sep /\ \A l \in 1..(j - 1) : s[l] # sep
         IN <<SubSeq(s, 1, i - 1)>> \o Split(SubSeq(s, i + 1, Len(s)), sep)

RECURSIVE Join(_, _)
\* Array.prototype.join(sep)
Join(parts, sep) ==
    IF parts = <<>> THEN <<>>
    ELSE IF Len(parts) = 1 THEN parts[1]
    ELSE parts[1] \o sep \o Join(Tail(parts), sep)

\* whether sub occurs in s (String.prototype.includes)
Includes(s, sub) ==
    \E i \in 1..(Len(s) - Len(sub) + 1) : SubSeq(s, i, i + Len(sub) - 1) = sub

-----------------------------------------------------------------------------
(* GeminiAdapter.cleanResponse, gemini.ts:68-147 *)

\* /\x1b\[[0-9;]*[a-zA-Z]/g
ReAnsiCsi == <<Ch(ESC), Ch("["), Cls(Digits \cup {";"}, "*"), Cls(Letters, "1")>>
\* /\x1b\[\??\d+[hl]/g
ReAnsiMode == <<Ch(ESC), Ch("["), Cls({"?"}, "?"), Cls(Digits, "+"), Cls({"h", "l"}, "1")>>
\* /\x1b\[\d* ?q/g
ReCursorStyle == <<Ch(ESC), Ch("["), Cls(Digits, "*"), Cls({" "}, "?"), Ch("q")>>
\* /\x1b\][^\x07]*\x07/g
ReOsc == <<Ch(ESC), Ch("]"), NotCls({BEL}, "*"), Ch(BEL)>>
\* /Loaded cached credentials\.?\s*/g
ReCredentials ==
    Lit(<<"L", "o", "a", "d", "e", "d", " ", "c", "a", "c", "h", "e", "d", " ",
          "c", "r", "e", "d", "e", "n", "t", "i", "a", "l", "s">>)
    \o <<Cls({"."}, "?"), Sp("*")>>
\* /[spinner frames]/g
ReSpinner == <<Cls(SpinnerFrames, "1")>>
\* /[box drawing characters]/g
ReBox == <<Cls(BoxDrawing, "1")>>
\* /^\s*Using:.*MCP servers?\s*$/gm
ReMcp ==
    <<Bol, Sp("*")>> \o Lit(<<"U", "s", "i", "n", "g", ":">>) \o <<Dot("*")>>
    \o Lit(<<"M", "C", "P", " ", "s", "e", "r", "v", "e", "r">>)
    \o <<Cls({"s"}, "?"), Sp("*"), Eol>>
\* /^\s*~\/.*\(main\*?\).*$/gm
ReDirStatus ==
    <<Bol, Sp("*"), Ch("~"), Ch("/"), Dot("*")>> \o Lit(<<"(", "m", "a", "i", "n">>)
    \o <<Cls({"*"}, "?"), Ch(")"), Dot("*"), Eol>>
\* /^\s*no sandbox.*$/gim
ReNoSandbox ==
    <<Bol, Sp("*")>> \o LitI(<<"n", "o", " ", "s", "a", "n", "d", "b", "o", "x">>)
    \o <<Dot("*"), Eol>>
\* /^\s*auto\s*$/gm
ReAuto == <<Bol, Sp("*")>> \o Lit(<<"a", "u", "t", "o">>) \o <<Sp("*"), Eol>>
\* /^\s*Reading.*\(esc to cancel.*\)\s*$/gm
ReReading ==
    <<Bol, Sp("*")>> \o Lit(<<"R", "e", "a", "d", "i", "n", "g">>) \o <<Dot("*")>>
    \o Lit(<<"(", "e", "s", "c", " ", "t", "o", " ", "c", "a", "n", "c", "e", "l">>)
    \o <<Dot("*"), Ch(")"), Sp("*"), Eol>>
TypeYourMessage ==
    <<"T", "y", "p", "e", " ", "y", "o", "u", "r", " ", "m", "e", "s", "s", "a", "g", "e">>
\* /^\s*Type your message or @path.*$/gm
ReTypeMsg ==
    <<Bol, Sp("*")>> \o Lit(TypeYourMessage \o <<" ", "o", "r", " ", "@", "p", "a", "t", "h">>)
    \o <<Dot("*"), Eol>>
\* /^\s*>\s*Type your message.*$/gm
RePromptHint ==
    <<Bol, Sp("*"), Ch(">"), Sp("*")>> \o Lit(TypeYourMessage) \o <<Dot("*"), Eol>>
\* /^\s*\?\s*for shortcuts\s*$/gm
ReShortcuts ==
    <<Bol, Sp("*"), Ch("?"), Sp("*")>>
    \o Lit(<<"f", "o", "r", " ", "s", "h", "o", "r", "t", "c", "u", "t", "s">>)
    \o <<Sp("*"), Eol>>
\* /^\s*Try ".*"\s*$/gm
ReTry ==
    <<Bol, Sp("*")>> \o Lit(<<"T", "r", "y", " ", "DQ">>)
    \o <<Dot("*"), Ch("DQ"), Sp("*"), Eol>>
\* /^\s*[check cross]\s+\w+.*$/gm
ReToolStatus ==
    <<Bol, Sp("*"), Cls({CHECK, CROSS}, "1"), Sp("+"), Cls(WordChars, "+"), Dot("*"), Eol>>
\* /^>\s*$/gm, which is also GeminiAdapter.promptPattern (gemini.ts:19)
RePrompt == <<Bol, Ch(">"), Sp("*"), Eol>>
\* /^(marker)\s*/ applied to a trimmed line that starts with the marker
ReMarker == <<Ch(MARK), Sp("*")>>
\* /\n{3,}/g
ReBlankRuns == <<Ch(NL), Ch(NL), Ch(NL), Cls({NL}, "*")>>
\* /^\s+$/gm
ReWsLine == <<Bol, Sp("+"), Eol>>

\* gemini.ts:71-75
StripAnsi(s) ==
    ReplaceAll(ReOsc,
        ReplaceAll(ReCursorStyle,
            ReplaceAll(ReAnsiMode,
                ReplaceAll(ReAnsiCsi, s, <<>>), <<>>), <<>>), <<>>)

\* gemini.ts:77-84
StripGlyphs(s) ==
    ReplaceAll(ReBox, ReplaceAll(ReSpinner, ReplaceAll(ReCredentials, s, <<>>), <<>>), <<>>)

\* gemini.ts:86-95 then 97-101, each pattern applied in the order of the source
ChromePatterns ==
    <<ReMcp, ReDirStatus, ReNoSandbox, ReAuto, ReReading, ReTypeMsg, RePromptHint,
      ReShortcuts, ReTry, ReToolStatus, RePrompt>>

RECURSIVE ApplyPatterns(_, _, _)
ApplyPatterns(res, i, s) ==
    IF i > Len(res) THEN s ELSE ApplyPatterns(res, i + 1, ReplaceAll(res[i], s, <<>>))

StripChrome(s) == ApplyPatterns(ChromePatterns, 1, s)

\* the filter of gemini.ts:123 on a non-empty trimmed line
KeepLine(trimmed) ==
    ~(\A i \in 1..Len(trimmed) : trimmed[i] \in GarbageChars) /\ Len(trimmed) > 2

\* one iteration of the loop of gemini.ts:110-130 on the scan state
\* [blocks, cur, inResponse]; a block is the list of its lines
ScanLine(st, line) ==
    LET trimmed == Trim(line) IN
    IF trimmed # <<>> /\ trimmed[1] = MARK THEN
        [blocks |-> IF st.cur # <<>> THEN Append(st.blocks, Join(st.cur, <<NL>>))
                    ELSE st.blocks,
         cur |-> <<SubSeq(trimmed, Match(ReMarker, 1, trimmed, 1), Len(trimmed))>>,
         inResponse |-> TRUE]
    ELSE IF st.inResponse /\ Len(trimmed) > 0 THEN
        (IF KeepLine(trimmed) THEN [st EXCEPT !.cur = Append(st.cur, line)] ELSE st)
    ELSE IF Len(trimmed) = 0 /\ st.inResponse THEN
        [st EXCEPT !.cur = Append(st.cur, <<>>)]
    ELSE st

RECURSIVE ScanLines(_, _, _)
ScanLines(st, lines, i) ==
    IF i > Len(lines) THEN st ELSE ScanLines(ScanLine(st, lines[i]), lines, i + 1)

\* gemini.ts:105-135: the response blocks found in the chrome-stripped text
ResponseBlocks(s) ==
    LET st == ScanLines([blocks |-> <<>>, cur |-> <<>>, inResponse |-> FALSE],
                        Split(s, NL), 1)
    IN IF st.cur # <<>> THEN Append(st.blocks, Join(st.cur, <<NL>>)) ELSE st.blocks

\* gemini.ts:137-140
ExtractResponse(s) ==
    LET responseBlocks == ResponseBlocks(s) IN
    IF Len(responseBlocks) > 0 THEN Join(responseBlocks, <<NL, NL>>) ELSE s

\* gemini.ts:142-146
FinalCleanup(s) ==
    Trim(ReplaceAll(ReWsLine, ReplaceAll(ReBlankRuns, s, <<NL, NL>>), <<>>))

cleanResponse(raw) == FinalCleanup(ExtractResponse(StripChrome(StripGlyphs(StripAnsi(raw)))))

-----------------------------------------------------------------------------
(* Raw terminal captures: the pieces they are assembled from *)

\* most pieces one capture is assembled from
MaxPieces == 3

TheAnswer ==
    <<"T", "h", "e", " ", "a", "n", "s", "w", "e", "r", " ", "i", "s", " ", "4", "2">>

\* The text of a piece of terminal output.
\*   csi     colour/style sequence              ESC [ 1 m
\*   mode    private mode, one parameter        ESC [ ? 2 5 l
\*   modes   private mode, two parameters       ESC [ ? 1 ; 2 h
\*   osc     window title                       ESC ] 0 ; t BEL
\*   spin    a spinner frame
\*   box     a box-drawing border character
\*   status  a tool status line
\*   marked  the marked answer line
\*   mark    the bare marker
\*   auto    the word "auto"
\*   text    a short line of plain text
PieceText(p) ==
    CASE p = "csi" -> <<ESC, "[", "1", "m">>
      [] p = "mode" -> <<ESC, "[", "?", "2", "5", "l">>
      [] p = "modes" -> <<ESC, "[", "?", "1", ";", "2", "h">>
      [] p = "osc" -> <<ESC, "]", "0", ";", "t", BEL>>
      [] p = "spin" -> <<"U+280B">>
      [] p = "box" -> <<"U+2500">>
      [] p = "status" -> <<CHECK, " ", "R", "e", "a", "d", "F", "i", "l", "e">>
      [] p = "marked" -> <<MARK, " ">> \o TheAnswer
      [] p = "mark" -> <<MARK>>
      [] p = "auto" -> <<"a", "u", "t", "o">>
      [] p = "text" -> <<"o", "k">>
      [] p = "sp" -> <<" ">>
      [] p = "nl" -> <<NL>>

ControlPieces == {"csi", "mode", "modes", "osc"}
ChromePieces == ControlPieces \cup {"spin", "box", "status", "sp", "nl"}
Pieces == ChromePieces \cup {"marked", "mark", "auto", "text"}

CleanInit ==
    /\ toks = <<>>
    /\ rawOutput = <<>>
    /\ cleaned = <<>>
    /\ recleaned = <<>>
    /\ cpc = "build"

\* one more piece of output arrives in the capture
AppendPiece ==
    /\ UNCHANGED notClean
    /\ /\ cpc = "build"
       /\ Len(toks) < MaxPieces
       /\ \E p \in Pieces :
           /\ toks' = Append(toks, p)
           /\ rawOutput' = rawOutput \o PieceText(p)
       /\ UNCHANGED <<cleaned, recleaned, cpc>>

\* the capture is cleaned
Clean ==
    /\ UNCHANGED notClean
    /\ /\ cpc = "build"
       /\ cleaned' = cleanResponse(rawOutput)
       /\ cpc' = "cleaned"
       /\ UNCHANGED <<toks, rawOutput, recleaned>>

\* the cleaned text is cleaned again
Reclean ==
    /\ UNCHANGED notClean
    /\ /\ cpc = "cleaned"
       /\ recleaned' = cleanResponse(cleaned)
       /\ cpc' = "recleaned"
       /\ UNCHANGED <<toks, rawOutput, cleaned>>

CleanNext == AppendPiece \/ Clean \/ Reclean

-----------------------------------------------------------------------------
(* The GeminiAdapter object, gemini.ts:13-182 *)

Gemini == <<"g", "e", "m", "i", "n", "i">>
\* gemini.ts:15
DisplayName == <<"G", "e", "m", "i", "n", "i", " ", "C", "L", "I">>
ResumeFlag == <<"-", "-", "r", "e", "s", "u", "m", "e">>
Latest == <<"l", "a", "t", "e", "s", "t">>
ErrorPrefix ==
    <<"G", "e", "m", "i", "n", "i", " ", "C", "L", "I", " ", "e", "x", "i", "t", "e", "d",
      " ", "w", "i", "t", "h", " ", "c", "o", "d", "e", " ">>
UnknownError == <<"U", "n", "k", "n", "o", "w", "n", " ", "e", "r", "r", "o", "r">>
AuthError == <<"a", "u", "t", "h", " ", "e", "r", "r", "o", "r">>
Hello == <<"h", "e", "l", "l", "o">>

\* prompts given to the adapter
Prompts == {Hello, <<"-", "y">>}
\* SendOptions.continueSession: true, false, or no option given
ContinueOptions == {"unset", "true", "false"}
\* what runCommand can return: exit codes and captured streams
ExitCodes == {0, 1, 2}
StderrTexts == {<<>>, <<" ">> \o AuthError \o <<NL>>, <<NL, " ">>}
StdoutTexts == {<<>>, <<"o", "k", NL>>, <<" ", NL>>}
\* raw captures given to cleanResponse through the adapter
AdapterRaws == {<<MARK, " ", "o", "k">>, <<ESC, "[", "1", "m", "o", "k">>}

DigitSeq == <<"0", "1", "2", "3", "4", "5", "6", "7", "8", "9">>
RECURSIVE NumStr(_)
\* a non-negative number as a template literal prints it
NumStr(n) == IF n < 10 THEN <<DigitSeq[n + 1]>> ELSE NumStr(n \div 10) \o <<DigitSeq[(n % 10) + 1]>>

NoRun == [exitCode |-> 0, stderr |-> <<>>, stdout |-> <<>>]
Call(name, prompt, cont, run) == [name |-> name, prompt |-> prompt, cont |-> cont, run |-> run]
Return(kind, val, argv) == [kind |-> kind, val |-> val, argv |-> argv]

AdapterInit ==
    /\ hasActiveSession = FALSE
    /\ op = Call("new", <<>>, "unset", NoRun)
    /\ ret = Return("void", <<>>, <<>>)
    /\ everSent = FALSE
    /\ sentSinceReset = FALSE
    /\ everMarked = FALSE
    /\ markedSinceClear = FALSE

\* a resume decision that ignores options.continueSession
ShouldContinueIgnoringOption(cont, flag) == flag

\* gemini.ts:37  options?.continueSession !== false && this.hasActiveSession
ShouldContinue(cont, flag) == cont # "false" /\ flag

\* gemini.ts:33-49
getCommandArgv(prompt, cont, flag) ==
    <<Gemini>> \o (IF ShouldContinue(cont, flag) THEN <<ResumeFlag, Latest>> ELSE <<>>)
    \o <<prompt>>

\* gemini.ts:51-58
getInteractiveCommandArgv(cont, flag) ==
    <<Gemini>> \o (IF ShouldContinue(cont, flag) THEN <<ResumeFlag, Latest>> ELSE <<>>)

\* gemini.ts:60-66
getPersistentArgsArgv(flag) == IF flag THEN <<ResumeFlag, Latest>> ELSE <<>>

\* an error cause that prefers the captured stdout to the captured stderr
ErrorCauseStdoutFirst(run) ==
    IF Trim(run.stdout) # <<>> THEN Trim(run.stdout)
    ELSE IF Trim(run.stderr) # <<>> THEN Trim(run.stderr)
    ELSE UnknownError

\* gemini.ts:158  result.stderr.trim() || result.stdout.trim() || 'Unknown error'
ErrorCause(run) ==
    IF Trim(run.stderr) # <<>> THEN Trim(run.stderr)
    ELSE IF Trim(run.stdout) # <<>> THEN Trim(run.stdout)
    ELSE UnknownError

\* gemini.ts:159
ErrorMessage(run) == ErrorPrefix \o NumStr(run.exitCode) \o <<":", " ">> \o ErrorCause(run)

\* gemini.ts:157  whether send throws on this result of runCommand
SendFails(run) == run.exitCode # 0

\* a send that marks the session whether or not the child process succeeded
FlagSetByAnySend(run, flag) == TRUE

\* gemini.ts:163  the flag after a send whose child process returned run
FlagAfterSend(run, flag) == IF SendFails(run) THEN flag ELSE TRUE

getCommand ==
    /\ UNCHANGED notAdapter
    /\ \E prompt \in Prompts, cont \in ContinueOptions :
           /\ op' = Call("getCommand", prompt, cont, NoRun)
           /\ ret' = Return("value", <<>>, getCommandArgv(prompt, cont, hasActiveSession))
           /\ UNCHANGED <<hasActiveSession, everSent, sentSinceReset, everMarked, markedSinceClear>>

getInteractiveCommand ==
    /\ UNCHANGED notAdapter
    /\ \E cont \in ContinueOptions :
           /\ op' = Call("getInteractiveCommand", <<>>, cont, NoRun)
           /\ ret' = Return("value", <<>>, getInteractiveCommandArgv(cont, hasActiveSession))
           /\ UNCHANGED <<hasActiveSession, everSent, sentSinceReset, everMarked, markedSinceClear>>

getPersistentArgs ==
    /\ UNCHANGED notAdapter
    /\ /\ op' = Call("getPersistentArgs", <<>>, "unset", NoRun)
       /\ ret' = Return("value", <<>>, getPersistentArgsArgv(hasActiveSession))
       /\ UNCHANGED <<hasActiveSession, everSent, sentSinceReset, everMarked, markedSinceClear>>

\* cleanResponse called on the adapter object
adapterCleanResponse ==
    /\ UNCHANGED notAdapter
    /\ \E raw \in AdapterRaws :
           /\ op' = Call("cleanResponse", raw, "unset", NoRun)
           /\ ret' = Return("value", cleanResponse(raw), <<>>)
           /\ UNCHANGED <<hasActiveSession, everSent, sentSinceReset, everMarked, markedSinceClear>>

\* gemini.ts:149-167; runCommand's result is the child process's to choose
send ==
    /\ UNCHANGED notAdapter
    /\ \E prompt \in Prompts, cont \in ContinueOptions, exitCode \in ExitCodes,
          stderr \in StderrTexts, stdout \in StdoutTexts :
           LET run == [exitCode |-> exitCode, stderr |-> stderr, stdout |-> stdout]
               argv == getCommandArgv(prompt, cont, hasActiveSession)
           IN /\ op' = Call("send", prompt, cont, run)
              /\ ret' = IF SendFails(run) THEN Return("throw", ErrorMessage(run), argv)
                        ELSE Return("value", Trim(run.stdout), argv)
              /\ hasActiveSession' = FlagAfterSend(run, hasActiveSession)
              /\ everSent' = (everSent \/ ~SendFails(run))
              /\ sentSinceReset' = (sentSinceReset \/ ~SendFails(run))
              /\ everMarked' = (everMarked \/ ~SendFails(run))
              /\ markedSinceClear' = (markedSinceClear \/ ~SendFails(run))

\* gemini.ts:169-171
resetContext ==
    /\ UNCHANGED notAdapter
    /\ /\ op' = Call("resetContext", <<>>, "unset", NoRun)
       /\ ret' = Return("void", <<>>, <<>>)
       /\ hasActiveSession' = FALSE
       /\ sentSinceReset' = FALSE
       /\ markedSinceClear' = FALSE
       /\ UNCHANGED <<everSent, everMarked>>

\* gemini.ts:174-176
hasSession ==
    /\ UNCHANGED notAdapter
    /\ /\ op' = Call("hasSession", <<>>, "unset", NoRun)
       /\ ret' = Return(IF hasActiveSession THEN "true" ELSE "false", <<>>, <<>>)
       /\ UNCHANGED <<hasActiveSession, everSent, sentSinceReset, everMarked, markedSinceClear>>

\* gemini.ts:179-181
setHasSession ==
    /\ UNCHANGED notAdapter
    /\ \E value \in BOOLEAN :
           /\ op' = Call("setHasSession", <<>>, IF value THEN "true" ELSE "false", NoRun)
           /\ ret' = Return("void", <<>>, <<>>)
           /\ hasActiveSession' = value
           /\ everMarked' = (everMarked \/ value)
           /\ markedSinceClear' = value
           /\ UNCHANGED <<everSent, sentSinceReset>>

AdapterNext ==
    \/ getCommand \/ getInteractiveCommand \/ getPersistentArgs \/ adapterCleanResponse
    \/ send \/ resetContext \/ hasSession \/ setHasSession

-----------------------------------------------------------------------------
(* Configuration, config.ts *)

Claude == <<"c", "l", "a", "u", "d", "e">>
Codex == <<"c", "o", "d", "e", "x">>

\* config.ts:17-29
DEFAULT_CONFIG ==
    [defaultTool |-> Claude,
     tools |-> [claude |-> [command |-> Claude,
                            defaultFlags |-> <<<<"-", "p">>,
                                               <<"-", "-", "o", "u", "t", "p", "u", "t", "-",
                                                 "f", "o", "r", "m", "a", "t">>,
                                               <<"t", "e", "x", "t">>>>],
                gemini |-> [command |-> Gemini,
                            defaultFlags |-> <<<<"-", "o">>, <<"t", "e", "x", "t">>>>]]]

\* a list of valid tools that has grown by a third tool
validToolsWithCodex == <<Claude, Gemini, Codex>>

\* config.ts:97, config.ts:110
validTools == <<Claude, Gemini>>
\* Array.prototype.includes
ArrayIncludes(arr, x) == \E i \in 1..Len(arr) : arr[i] = x

\* A JSON object's optional field
Present(v) == [present |-> TRUE, val |-> v]
Missing(v) == [present |-> FALSE, val |-> v]

\* tool names a caller or the environment may give
ToolNames ==
    {Claude, Gemini, <<"G", "e", "m", "i", "n", "i">>, <<"C", "L", "A", "U", "D", "E">>,
     Codex, <<>>}
\* `tools` objects a config file may hold
FileTools ==
    {Missing(<<>>), Present(<<>>),
     Present([gemini |-> [command |-> <<"g", "2">>, defaultFlags |-> <<>>]]),
     Present([codex |-> [command |-> Codex, defaultFlags |-> <<>>]])}
\* `defaultTool` values a config file may hold
FileDefaultTools ==
    {Missing(<<>>), Present(<<>>), Present(Claude), Present(Gemini), Present(Codex)}

AbsentFile == [kind |-> "absent", defaultTool |-> Missing(<<>>), tools |-> Missing(<<>>)]
\* a file whose content JSON.parse rejects
GarbageFile == [kind |-> "garbage", defaultTool |-> Missing(<<>>), tools |-> Missing(<<>>)]
JsonFile(d, t) == [kind |-> "json", defaultTool |-> d, tools |-> t]
ConfigFiles ==
    {AbsentFile, GarbageFile} \cup {JsonFile(d, t) : d \in FileDefaultTools, t \in FileTools}

\* process.env.AIC_DEFAULT_TOOL
EnvValues == {Missing(<<>>)} \cup {Present(t) : t \in ToolNames}

CfgCall(name, arg) == [name |-> name, arg |-> arg]
CfgReturn(success, text, config) == [success |-> success, text |-> text, config |-> config]

ConfigInit ==
    /\ dirExists \in BOOLEAN
    /\ fileContent \in ConfigFiles
    /\ (fileContent.kind # "absent" => dirExists)
    /\ envTool \in EnvValues
    /\ cfgOp = CfgCall("start", <<>>)
    /\ cfgRet = CfgReturn("none", <<>>, DEFAULT_CONFIG)
    /\ fsCalls = <<>>
    /\ defaults = DEFAULT_CONFIG
    /\ writtenTools = {}

\* a merge that takes the file's tools object in place of the default one
MergeToolsReplacing(loadedTools) ==
    IF loadedTools.present THEN loadedTools.val ELSE defaults.tools

\* { ...DEFAULT_CONFIG.tools, ...loaded.tools }
MergeTools(loadedTools) ==
    IF loadedTools.present THEN loadedTools.val @@ defaults.tools
    ELSE defaults.tools

\* a loadConfig that hands out DEFAULT_CONFIG itself when it has no file to merge
SharesDefaultsWithoutFile(file) == file.kind \in {"absent", "garbage"}

\* config.ts:62, 68, 78  whether the object loadConfig returns is DEFAULT_CONFIG
\* itself: never, each return builds a new object with { ...DEFAULT_CONFIG }
SharesDefaults(file) == FALSE

\* config.ts:58-80
loadConfig(file) ==
    IF file.kind = "absent" THEN defaults
    ELSE IF file.kind = "garbage" THEN defaults
    ELSE [defaultTool |-> IF file.defaultTool.present THEN file.defaultTool.val
                          ELSE defaults.defaultTool,
          tools |-> MergeTools(file.tools)]

\* a resolution that consults the config file before the environment
getDefaultToolFileFirst(env, file) ==
    LET config == loadConfig(file) IN
    IF file.kind = "json" /\ config.defaultTool # <<>> THEN config.defaultTool
    ELSE IF env.present /\ env.val # <<>> /\ ArrayIncludes(validTools, toLowerCase(env.val))
    THEN toLowerCase(env.val)
    ELSE Claude

\* config.ts:94-104
getDefaultTool(env, file) ==
    IF env.present /\ env.val # <<>> /\ ArrayIncludes(validTools, toLowerCase(env.val))
    THEN toLowerCase(env.val)
    ELSE LET config == loadConfig(file) IN
         IF config.defaultTool # <<>> THEN config.defaultTool ELSE Claude

\* config.ts:113  whether setDefaultTool accepts the name
IsValidTool(tool) == ArrayIncludes(validTools, toLowerCase(tool))

\* config.ts:116
InvalidMessage(tool) ==
    <<"I", "n", "v", "a", "l", "i", "d", " ", "t", "o", "o", "l", " ", "DQ">> \o tool
    \o <<"DQ", ".", " ">>
    \o <<"V", "a", "l", "i", "d", " ", "o", "p", "t", "i", "o", "n", "s", ":", " ">>
    \o Join(validTools, <<",", " ">>)

\* config.ts:126
SetMessage(normalizedTool) ==
    <<"D", "e", "f", "a", "u", "l", "t", " ", "t", "o", "o", "l", " ", "s", "e", "t", " ",
      "t", "o", " ", "DQ">> \o normalizedTool \o <<"DQ", ".">>

\* a save of the name as the caller wrote it, not lower-cased
ConfigToSaveAsGiven(tool, file) == [loadConfig(file) EXCEPT !.defaultTool = tool]

\* config.ts:120-121  the config setDefaultTool saves
ConfigToSave(tool, file) == [loadConfig(file) EXCEPT !.defaultTool = toLowerCase(tool)]

\* config.ts:85-89 with ensureConfigDir (config.ts:48-53): the writes saveConfig makes
SaveCalls(dir) == (IF dir THEN <<>> ELSE <<"mkdirSync">>) \o <<"writeFileSync">>

\* the file JSON.stringify(config) leaves on disk
FileOf(config) == JsonFile(Present(config.defaultTool), Present(config.tools))

loadConfigCall ==
    /\ UNCHANGED notConfig
    /\ /\ cfgOp' = CfgCall("loadConfig", <<>>)
       /\ cfgRet' = CfgReturn("none", <<>>, loadConfig(fileContent))
       /\ fsCalls' = <<>>
       /\ UNCHANGED <<dirExists, fileContent, envTool, defaults, writtenTools>>

getDefaultToolCall ==
    /\ UNCHANGED notConfig
    /\ /\ cfgOp' = CfgCall("getDefaultTool", <<>>)
       /\ cfgRet' = CfgReturn("none", getDefaultTool(envTool, fileContent), DEFAULT_CONFIG)
       /\ fsCalls' = <<>>
       /\ UNCHANGED <<dirExists, fileContent, envTool, defaults, writtenTools>>

\* config.ts:109-128
setDefaultTool ==
    /\ UNCHANGED notConfig
    /\ \E tool \in ToolNames :
           /\ cfgOp' = CfgCall("setDefaultTool", tool)
           /\ IF ~IsValidTool(tool)
              THEN /\ cfgRet' = CfgReturn("false", InvalidMessage(tool), DEFAULT_CONFIG)
                   /\ fsCalls' = <<>>
                   /\ UNCHANGED <<dirExists, fileContent, defaults, writtenTools>>
              ELSE /\ cfgRet' = CfgReturn("true", SetMessage(toLowerCase(tool)), DEFAULT_CONFIG)
                   /\ fsCalls' = SaveCalls(dirExists)
                   /\ dirExists' = TRUE
                   /\ fileContent' = FileOf(ConfigToSave(tool, fileContent))
                   /\ defaults' = IF SharesDefaults(fileContent)
                                  THEN ConfigToSave(tool, fileContent)
                                  ELSE defaults
                   /\ writtenTools' =
                          writtenTools \cup {ConfigToSave(tool, fileContent).defaultTool}
           /\ UNCHANGED envTool

\* the environment variable is set or cleared between calls
setEnv ==
    /\ UNCHANGED notConfig
    /\ /\ \E v \in EnvValues : envTool' = v
       /\ cfgOp' = CfgCall("setEnv", <<>>)
       /\ cfgRet' = CfgReturn("none", <<>>, DEFAULT_CONFIG)
       /\ fsCalls' = <<>>
       /\ UNCHANGED <<dirExists, fileContent, defaults, writtenTools>>

\* the config file is deleted between calls (the tests' existsSync -> false)
removeConfigFile ==
    /\ UNCHANGED notConfig
    /\ /\ fileContent.kind # "absent"
       /\ fileContent' = AbsentFile
       /\ cfgOp' = CfgCall("removeConfigFile", <<>>)
       /\ cfgRet' = CfgReturn("none", <<>>, DEFAULT_CONFIG)
       /\ fsCalls' = <<>>
       /\ UNCHANGED <<dirExists, envTool, defaults, writtenTools>>

ConfigNext ==
    loadConfigCall \/ getDefaultToolCall \/ setDefaultTool \/ setEnv \/ removeConfigFile

-----------------------------------------------------------------------------
(* PersistentSession: the send / await-boundary state machine of spec.md   *)
(* 4.3 and 5, driven by the Gemini adapter's promptPattern, idleTimeout    *)
(* and startupDelay.  Clocks count milliseconds and stop at the delay they *)
(* are compared with.                                                       *)

\* gemini.ts:22
idleTimeout == 1500
\* gemini.ts:25
startupDelay == 8000
\* gemini.ts:19
promptPattern == RePrompt

\* most characters the output buffer holds
MaxBuffer == 5
\* most prompts one session accepts
MaxSends == 2
\* how far the clocks move between two events
Delays == {500, 1000, 4000}
\* chunks the child process emits: a text line, a prompt line, a prompt without
\* its line end, a line end
Chunks == {<<"o", "k", NL>>, <<">", " ", NL>>, <<">">>, <<NL>>}

NoResolution == [count |-> 0, by |-> "none", quiet |-> -1, text |-> <<>>]
Request(prompt) == [prompt |-> prompt]

SessionInit ==
    /\ lifecycle = "Unstarted"
    /\ pendingRequest = <<>>
    /\ outputBuffer = <<>>
    /\ ptyWrites = <<>>
    /\ startClock = 0
    /\ idleClock = 0
    /\ quietClock = 0
    /\ idleArmed = FALSE
    /\ promptSeen = FALSE
    /\ matchSeen = FALSE
    /\ resolution = NoResolution
    /\ sendResult = "none"

\* the complete lines of a buffer: those a line end has closed
CompleteLines(buf) == LET lines == Split(buf, NL) IN SubSeq(lines, 1, Len(lines) - 1)

\* whether the newest complete line of the buffer matches the prompt pattern
NewestLineMatches(buf) ==
    LET lines == CompleteLines(buf) IN
    /\ lines # <<>>
    /\ Match(promptPattern, 1, lines[Len(lines)], 1) = Len(lines[Len(lines)]) + 1

\* whether the chunk that made the buffer buf completes a line matching the pattern
ChunkHits(chunk, buf) ==
    (\E i \in 1..Len(chunk) : chunk[i] = NL) /\ NewestLineMatches(buf)

\* a refusal that looks at the process only, not at the pending request
SendRejectedWhenTerminated(pending, state) == state = "Terminated"

\* whether a send arriving in this state is refused
SendRejected(pending, state) == pending # <<>> \/ state = "Terminated"

\* the value of the idle clock at which the idle timer expires
IdleDeadline == idleTimeout

\* an idle timer that a chunk does not reset
IdleClockKeptOnData(clock) == clock

\* the idle clock after a chunk arrived
IdleClockOnData(clock) == 0

\* whether a chunk that hits the prompt pattern ends the pending request at once
BoundaryOnHit(pending, hit, state) ==
    pending # <<>> /\ hit /\ state \in {"Sending", "AwaitingBoundary"}

\* a clock d later, stopping at cap
Later(clock, d, cap) == IF clock + d > cap THEN cap ELSE clock + d

\* a boundary is declared: the request is resolved with the cleaned buffer
Boundary(by, buf, quiet) ==
    /\ resolution' = [count |-> resolution.count + 1, by |-> by, quiet |-> quiet,
                      text |-> cleanResponse(buf)]
    /\ pendingRequest' = <<>>
    /\ idleArmed' = FALSE
    /\ lifecycle' = "Ready"
    /\ hasActiveSession' = TRUE

\* AwaitingReady/Ready -> Sending: the prompt is written to the PTY, the
\* output buffer starts afresh, the idle timer is started
WritePrompt(prompt) ==
    /\ ptyWrites' = Append(ptyWrites, prompt)
    /\ outputBuffer' = <<>>
    /\ lifecycle' = "Sending"
    /\ idleClock' = 0
    /\ quietClock' = 0
    /\ idleArmed' = TRUE
    /\ matchSeen' = FALSE
    /\ resolution' = NoResolution

\* Unstarted -> Starting: explicit start
startSession ==
    /\ UNCHANGED notSession
    /\ sendResult' = "none"
    /\ /\ lifecycle = "Unstarted"
       /\ lifecycle' = "Starting"
       /\ startClock' = 0
       /\ idleClock' = 0
       /\ quietClock' = 0
       /\ UNCHANGED <<pendingRequest, outputBuffer, ptyWrites, idleArmed, promptSeen,
                      matchSeen, resolution, hasActiveSession>>

\* Starting -> AwaitingReady: the process is spawned
spawned ==
    /\ UNCHANGED notSession
    /\ sendResult' = "none"
    /\ /\ lifecycle = "Starting"
       /\ lifecycle' = "AwaitingReady"
       /\ UNCHANGED <<pendingRequest, outputBuffer, ptyWrites, startClock, idleClock,
                      quietClock, idleArmed, promptSeen, matchSeen, resolution,
                      hasActiveSession>>

\* AwaitingReady -> Ready, or AwaitingReady -> Sending when a send is waiting:
\* startupDelay has passed and the tool printed its prompt or went quiet for
\* idleTimeout
becomeReady ==
    /\ UNCHANGED notSession
    /\ sendResult' = "none"
    /\ /\ lifecycle = "AwaitingReady"
       /\ startClock >= startupDelay
       /\ promptSeen \/ idleClock >= idleTimeout
       /\ IF pendingRequest = <<>> THEN
              /\ lifecycle' = "Ready"
              /\ UNCHANGED <<outputBuffer, ptyWrites, idleClock, quietClock, idleArmed,
                             matchSeen, resolution>>
          ELSE
              WritePrompt(pendingRequest[1].prompt)
       /\ UNCHANGED <<pendingRequest, startClock, promptSeen, hasActiveSession>>

\* a send on the session: refused while a request is pending; otherwise the
\* request is created, the session is started if it was not, and the prompt
\* is written as soon as the tool is ready
sessionSend ==
    /\ UNCHANGED notSession
    /\ \E prompt \in Prompts :
           IF SendRejected(pendingRequest, lifecycle) THEN
               /\ sendResult' = "rejected"
               /\ UNCHANGED <<lifecycle, pendingRequest, outputBuffer, ptyWrites, startClock,
                              idleClock, quietClock, idleArmed, promptSeen, matchSeen,
                              resolution, hasActiveSession>>
           ELSE
               /\ Len(ptyWrites) < MaxSends
               /\ sendResult' = "accepted"
               /\ pendingRequest' = Append(pendingRequest, Request(prompt))
               /\ IF lifecycle = "Unstarted" THEN
                      /\ lifecycle' = "Starting"
                      /\ startClock' = 0
                      /\ idleClock' = 0
                      /\ quietClock' = 0
                      /\ UNCHANGED <<outputBuffer, ptyWrites, idleArmed, matchSeen, resolution>>
                  ELSE IF lifecycle \in {"Starting", "AwaitingReady"} THEN
                      UNCHANGED <<lifecycle, outputBuffer, ptyWrites, startClock, idleClock,
                                  quietClock, idleArmed, matchSeen, resolution>>
                  ELSE
                      /\ WritePrompt(prompt)
                      /\ UNCHANGED startClock
               /\ UNCHANGED <<promptSeen, hasActiveSession>>

\* Sending -> AwaitingBoundary: the prompt is written
written ==
    /\ UNCHANGED notSession
    /\ sendResult' = "none"
    /\ /\ lifecycle = "Sending"
       /\ lifecycle' = "AwaitingBoundary"
       /\ UNCHANGED <<pendingRequest, outputBuffer, ptyWrites, startClock, idleClock,
                      quietClock, idleArmed, promptSeen, matchSeen, resolution,
                      hasActiveSession>>

\* a chunk of output arrives: it is buffered, the idle timer is reset, and the
\* newest complete line is tested against the prompt pattern
onData ==
    /\ UNCHANGED notSession
    /\ sendResult' = "none"
    /\ \E chunk \in Chunks :
           /\ lifecycle \in {"AwaitingReady", "Ready", "Sending", "AwaitingBoundary"}
           /\ Len(outputBuffer) + Len(chunk) <= MaxBuffer
           /\ outputBuffer' = outputBuffer \o chunk
           /\ idleClock' = IdleClockOnData(idleClock)
           /\ quietClock' = 0
           /\ LET hit == ChunkHits(chunk, outputBuffer \o chunk) IN
              /\ matchSeen' = (matchSeen \/ (idleArmed /\ hit))
              /\ IF BoundaryOnHit(pendingRequest, hit, lifecycle) THEN
                     /\ Boundary("pattern", outputBuffer \o chunk, 0)
                     /\ UNCHANGED promptSeen
                 ELSE
                     /\ promptSeen' = (promptSeen \/ (lifecycle = "AwaitingReady" /\ hit))
                     /\ UNCHANGED <<lifecycle, pendingRequest, idleArmed, resolution,
                                    hasActiveSession>>
           /\ UNCHANGED <<ptyWrites, startClock>>

\* the idle timer expires: idleTimeout has passed since it was last reset
idleExpired ==
    /\ UNCHANGED notSession
    /\ sendResult' = "none"
    /\ /\ pendingRequest # <<>>
       /\ idleArmed
       /\ idleClock = IdleDeadline
       /\ Boundary("idle", outputBuffer, quietClock)
       /\ UNCHANGED <<outputBuffer, ptyWrites, startClock, idleClock, quietClock, promptSeen,
                      matchSeen>>

\* time passes, but not past the deadline of a running timer
advance ==
    /\ UNCHANGED notSession
    /\ sendResult' = "none"
    /\ \E d \in Delays :
           /\ lifecycle \notin {"Unstarted", "Terminated"}
           /\ idleArmed => idleClock + d <= IdleDeadline
           /\ startClock' = Later(startClock, d, startupDelay)
           /\ idleClock' = Later(idleClock, d, IF idleArmed THEN IdleDeadline ELSE idleTimeout)
           /\ quietClock' = Later(quietClock, d, IdleDeadline + idleTimeout)
           /\ startClock' # startClock \/ idleClock' # idleClock \/ quietClock' # quietClock
           /\ UNCHANGED <<lifecycle, pendingRequest, outputBuffer, ptyWrites, idleArmed,
                          promptSeen, matchSeen, resolution, hasActiveSession>>

\* the process exits or is killed: a pending request is rejected, the buffer
\* is discarded
terminated ==
    /\ UNCHANGED notSession
    /\ sendResult' = "none"
    /\ /\ lifecycle \notin {"Unstarted", "Terminated"}
       /\ lifecycle' = "Terminated"
       /\ resolution' = IF pendingRequest # <<>>
                        THEN [count |-> resolution.count + 1, by |-> "exit",
                              quiet |-> quietClock, text |-> <<>>]
                        ELSE resolution
       /\ pendingRequest' = <<>>
       /\ outputBuffer' = <<>>
       /\ idleArmed' = FALSE
       /\ UNCHANGED <<ptyWrites, startClock, idleClock, quietClock, promptSeen, matchSeen,
                      hasActiveSession>>

SessionNext ==
    \/ startSession \/ spawned \/ becomeReady \/ sessionSend \/ written \/ onData
    \/ idleExpired \/ advance \/ terminated

-----------------------------------------------------------------------------
(* SessionOrchestrator: the registry, the active tool and the /switch and  *)
(* /forward meta-commands of spec.md 4.4                                    *)

\* most tools the registry holds
MaxTools == 4
\* index.ts registers the Claude and the Gemini adapter, in this order
InitialRegistry == <<"claude", "gemini">>
\* adapters registered after them (CONTRIBUTING, "Adding New AI CLI Tools")
ExtraTools == <<"codex", "qwen", "aider">>
\* messages a /forward carries; "" stands for none given
Messages == {"", "hello"}
NoTool == "none"

Registered == {registry[i] : i \in 1..Len(registry)}
AllTools == {InitialRegistry[i] : i \in 1..Len(InitialRegistry)}
            \cup {ExtraTools[i] : i \in 1..Len(ExtraTools)}

Outcome(cmd, explicit, target, sent) ==
    [cmd |-> cmd, explicit |-> explicit, target |-> target, sent |-> sent]

OrchInit ==
    /\ registry = InitialRegistry
    /\ activeTool \in {"claude", "gemini"}
    /\ inbox = [t \in AllTools |-> "-"]
    /\ fwdResult = Outcome("start", NoTool, NoTool, FALSE)

\* registry.register(adapter)
register ==
    /\ UNCHANGED notOrch
    /\ /\ Len(registry) < MaxTools
       /\ Len(registry) - Len(InitialRegistry) < Len(ExtraTools)
       /\ registry' = Append(registry, ExtraTools[Len(registry) - Len(InitialRegistry) + 1])
       /\ fwdResult' = Outcome("register", NoTool, NoTool, FALSE)
       /\ UNCHANGED <<activeTool, inbox>>

\* /switch <tool> and the /<toolname> shortcuts
switch ==
    /\ UNCHANGED notOrch
    /\ \E tool \in AllTools :
           /\ fwdResult' = Outcome("switch", tool, NoTool, FALSE)
           /\ activeTool' = IF tool \in Registered THEN tool ELSE activeTool
           /\ UNCHANGED <<registry, inbox>>

\* a target that is the first registered tool other than the active one,
\* however many tools are registered
ForwardTargetFirstOther(explicit, reg, active) ==
    IF explicit # NoTool THEN
        (IF \E i \in 1..Len(reg) : reg[i] = explicit THEN explicit ELSE NoTool)
    ELSE IF reg[1] = active THEN reg[2] ELSE reg[1]

\* the target of a /forward: the tool named, or with two tools the other one
ForwardTarget(explicit, reg, active) ==
    IF explicit # NoTool THEN
        (IF \E i \in 1..Len(reg) : reg[i] = explicit THEN explicit ELSE NoTool)
    ELSE IF Len(reg) = 2 THEN
        (IF reg[1] = active THEN reg[2] ELSE reg[1])
    ELSE NoTool

\* /forward [tool] [message] and /fwd
forward ==
    /\ UNCHANGED notOrch
    /\ \E explicit \in AllTools \cup {NoTool}, message \in Messages :
           LET target == ForwardTarget(explicit, registry, activeTool) IN
           /\ fwdResult' = Outcome("forward", explicit, target, target # NoTool)
           /\ inbox' = IF target # NoTool
                       THEN [inbox EXCEPT ![target] = IF message = "" THEN "latest" ELSE message]
                       ELSE inbox
           /\ UNCHANGED <<registry, activeTool>>

OrchNext == register \/ switch \/ forward

-----------------------------------------------------------------------------
(* Specifications: each part of the program runs on its own while the      *)
(* other parts stay in their initial state.                                 *)

\* the config part holding still: no directory, no file, no variable
ConfigIdle ==
    /\ dirExists = FALSE
    /\ fileContent = AbsentFile
    /\ envTool = Missing(<<>>)
    /\ cfgOp = CfgCall("start", <<>>)
    /\ cfgRet = CfgReturn("none", <<>>, DEFAULT_CONFIG)
    /\ fsCalls = <<>>
    /\ defaults = DEFAULT_CONFIG
    /\ writtenTools = {}
\* the orchestrator holding still
OrchIdle ==
    /\ registry = InitialRegistry
    /\ activeTool = "claude"
    /\ inbox = [t \in AllTools |-> "-"]
    /\ fwdResult = Outcome("start", NoTool, NoTool, FALSE)

InitIdle == CleanInit /\ AdapterInit /\ ConfigIdle /\ SessionInit /\ OrchIdle
InitConfig == CleanInit /\ AdapterInit /\ ConfigInit /\ SessionInit /\ OrchIdle
InitOrch == CleanInit /\ AdapterInit /\ ConfigIdle /\ SessionInit /\ OrchInit
Init == CleanInit /\ AdapterInit /\ ConfigInit /\ SessionInit /\ OrchInit

\* cleanResponse on assembled captures
SpecClean == InitIdle /\ [][CleanNext]_vars
\* the adapter object
SpecAdapter == InitIdle /\ [][AdapterNext]_vars
\* the configuration store
SpecConfig == InitConfig /\ [][ConfigNext]_vars
\* one persistent session; a boundary sets the adapter's continuation flag
SpecSession == InitIdle /\ [][SessionNext]_vars
\* the orchestrator's meta-commands
SpecOrch == InitOrch /\ [][OrchNext]_vars

\* the whole program: any part takes a step
Next == CleanNext \/ AdapterNext \/ ConfigNext \/ SessionNext \/ OrchNext
Spec == Init /\ [][Next]_vars

-----------------------------------------------------------------------------
(* Properties of cleanResponse, checked under SpecClean.                    *)

\* C1: cleanResponse is idempotent: cleaning an already cleaned capture
\* returns it unchanged, also when the capture was extracted from a marked
\* block and no longer carries the marker.
C1_Idempotent == cpc = "recleaned" => recleaned = cleaned

\* the capture consists of chrome (control sequences, spinner glyphs, border
\* characters, tool status lines, line ends) and one marked line, with the
\* status lines and the marked line each on a line of their own
LinePieces == {"status", "marked"}
OneMarkedLineInChrome(ts) ==
    /\ Cardinality({i \in 1..Len(ts) : ts[i] = "marked"}) = 1
    /\ \A i \in 1..Len(ts) : ts[i] \in ControlPieces \cup {"spin", "box", "status", "nl", "marked"}
    /\ \A i, j \in 1..Len(ts) :
           (i < j /\ ts[i] \in LinePieces /\ ts[j] \in LinePieces)
               => \E k \in (i + 1)..(j - 1) : ts[k] = "nl"

\* C7: for a capture made of control sequences, spinner glyphs, border lines,
\* tool status lines and a single marked line, cleanResponse returns exactly
\* the text after the marker, here 'The answer is 42'.
C7_ExactlyTheAnswer ==
    (cpc # "build" /\ OneMarkedLineInChrome(toks)) => cleaned = TheAnswer

-----------------------------------------------------------------------------
(* Properties of the adapter object, checked under SpecAdapter.  op and ret *)
(* are the last call and its outcome, so op' and ret' in a step are the     *)
(* call the step makes and what it returns.                                  *)

FlagReaders ==
    {"getCommand", "getInteractiveCommand", "getPersistentArgs", "cleanResponse", "hasSession"}

\* C2: the continuation flag starts false, becomes true on a successful send,
\* becomes false on resetContext, takes the value v on setHasSession(v), is
\* left as it was by a send that ends with a non-zero exit code, and is
\* changed by no other operation.
C2_FlagChanges ==
    /\ hasActiveSession = FALSE
    /\ [][/\ (op'.name = "send" /\ op'.run.exitCode = 0) => hasActiveSession' = TRUE
          /\ (op'.name = "send" /\ op'.run.exitCode # 0) =>
                 hasActiveSession' = hasActiveSession
          /\ op'.name = "resetContext" => hasActiveSession' = FALSE
          /\ op'.name = "setHasSession" => hasActiveSession' = (op'.cont = "true")
          /\ op'.name \in FlagReaders => hasActiveSession' = hasActiveSession]_vars

\* C2 witness: a send ended with a non-zero exit code after an earlier send
\* had succeeded, and the flag is still true
C2_FailedSendKeepsFlag ==
    /\ op.name = "send" /\ op.run.exitCode # 0
    /\ everSent /\ hasActiveSession

\* C3: a send whose child process returns a non-zero exit code returns no
\* response: it throws an error whose message contains the tool's name
\* ('Gemini CLI'), the exit code, and the trimmed stderr, or the trimmed
\* stdout when the trimmed stderr is empty, or 'Unknown error' when both are.
C3_NonZeroExitThrows ==
    (op.name = "send" /\ op.run.exitCode # 0) =>
        /\ ret.kind = "throw"
        /\ Includes(ret.val, DisplayName)
        /\ Includes(ret.val, NumStr(op.run.exitCode))
        /\ Trim(op.run.stderr) # <<>> => Includes(ret.val, Trim(op.run.stderr))
        /\ (Trim(op.run.stderr) = <<>> /\ Trim(op.run.stdout) # <<>>) =>
               /\ Includes(ret.val, Trim(op.run.stdout))
               /\ ~Includes(ret.val, UnknownError)
        /\ (Trim(op.run.stderr) = <<>> /\ Trim(op.run.stdout) = <<>>) =>
               Includes(ret.val, UnknownError)
        /\ Trim(op.run.stderr) # <<>> /\ Trim(op.run.stdout) # <<>> =>
               ~Includes(ret.val, Trim(op.run.stdout))

\* C3 witness: exit code 1 with stderr ' auth error\n' and some stdout threw
\* an error naming the tool and 'auth error'
C3_AuthErrorThrown ==
    /\ op.name = "send" /\ op.run.exitCode = 1
    /\ Trim(op.run.stderr) = AuthError /\ Trim(op.run.stdout) # <<>>
    /\ ret.kind = "throw"
    /\ Includes(ret.val, AuthError)

\* whether an argv carries the session-resume arguments '--resume', 'latest'
HasResume(argv) ==
    \E i \in 1..(Len(argv) - 1) : argv[i] = ResumeFlag /\ argv[i + 1] = Latest

\* the operations that build an argv (send builds it with getCommand)
Builders == {"getCommand", "getInteractiveCommand", "getPersistentArgs", "send"}

\* C8 as stated: no command built before the first successful send carries
\* the resume arguments, and every command built after a successful send and
\* before resetContext (with continueSession not false) carries them.
C8_ResumeFollowsSends ==
    [][op'.name \in Builders =>
           /\ ~everSent => ~HasResume(ret'.argv)
           /\ (sentSinceReset /\ op'.cont # "false") => HasResume(ret'.argv)]_vars

\* C8 amended: a command carries the resume arguments if and only if the
\* session is marked (by a successful send or setHasSession(true), and not
\* since unmarked by resetContext or setHasSession(false)) and
\* options.continueSession is not false; in getCommand 'gemini' is the first
\* element and the prompt the single last one.
C8_ResumeIffMarked ==
    [][op'.name \in Builders =>
           /\ HasResume(ret'.argv) <=> (markedSinceClear /\ op'.cont # "false")
           /\ op'.name \in {"getCommand", "send"} =>
                  /\ ret'.argv[1] = Gemini
                  /\ ret'.argv[Len(ret'.argv)] = op'.prompt
                  /\ Len(ret'.argv) = (IF HasResume(ret'.argv) THEN 4 ELSE 2)]_vars

\* C8 witness: before any successful send, after setHasSession(true), the
\* command getCommand built carries the resume arguments before the prompt
C8_ResumeWithoutSend ==
    /\ ~everSent
    /\ op.name = "getCommand"
    /\ ret.argv = <<Gemini, ResumeFlag, Latest, op.prompt>>

-----------------------------------------------------------------------------
(* Properties of the configuration functions, checked under SpecConfig.     *)
(* cfgOp and cfgRet are the last call and its outcome.                      *)

\* AIC_DEFAULT_TOOL is set to 'claude' or 'gemini' in some letter case
EnvNamesTool == envTool.present /\ toLowerCase(envTool.val) \in {Claude, Gemini}

\* C9 as stated: a valid environment value wins, in lower case; otherwise
\* the result is the config file's defaultTool; with no config file it is
\* 'claude'.
C9_FileDefaultToolReturned ==
    cfgOp.name = "getDefaultTool" =>
        /\ EnvNamesTool => cfgRet.text = toLowerCase(envTool.val)
        /\ (~EnvNamesTool /\ fileContent.kind = "absent") => cfgRet.text = Claude
        /\ (~EnvNamesTool /\ fileContent.kind = "json" /\ fileContent.defaultTool.present) =>
               cfgRet.text = fileContent.defaultTool.val

\* C9 amended: a valid environment value wins, in lower case, whatever the
\* file holds; otherwise the result is the config file's defaultTool when the
\* file parses and holds a non-empty one, and 'claude' in every other case
\* (no file, an unparsable file, no defaultTool in it, an empty defaultTool).
C9_FileDefaultToolOrClaude ==
    cfgOp.name = "getDefaultTool" =>
        /\ EnvNamesTool => cfgRet.text = toLowerCase(envTool.val)
        /\ ~EnvNamesTool =>
               cfgRet.text =
                   IF /\ fileContent.kind = "json"
                      /\ fileContent.defaultTool.present
                      /\ fileContent.defaultTool.val # <<>>
                   THEN fileContent.defaultTool.val
                   ELSE Claude

\* C9 witness: with an environment value that names no tool and a config
\* file whose defaultTool is the empty string, getDefaultTool returned 'claude'
C9_EmptyDefaultToolGivesClaude ==
    /\ cfgOp.name = "getDefaultTool"
    /\ envTool.present /\ ~EnvNamesTool
    /\ fileContent.kind = "json"
    /\ fileContent.defaultTool = Present(<<>>)
    /\ cfgRet.text = Claude

InvalidToolText == <<"I", "n", "v", "a", "l", "i", "d", " ", "t", "o", "o", "l">>

\* C10: setDefaultTool with a name that is not 'claude' or 'gemini' in any
\* letter case returns success=false with a message containing 'Invalid
\* tool' and writes nothing: the config file and directory stay as they were.
C10_InvalidToolRejected ==
    [][(cfgOp'.name = "setDefaultTool" /\ toLowerCase(cfgOp'.arg) \notin {Claude, Gemini}) =>
           /\ cfgRet'.success = "false"
           /\ Includes(cfgRet'.text, InvalidToolText)
           /\ fsCalls' = <<>>
           /\ dirExists' = dirExists
           /\ fileContent' = fileContent]_vars

\* C10 witness: setDefaultTool('codex') was refused where neither the config
\* directory nor the file exists, and neither was created
C10_CodexRefused ==
    /\ cfgOp.name = "setDefaultTool" /\ cfgOp.arg = Codex
    /\ cfgRet.success = "false"
    /\ ~dirExists /\ fileContent.kind = "absent"

-----------------------------------------------------------------------------
(* Properties of a PersistentSession, checked under SpecSession.            *)

\* C4: a session has at most one PendingRequest in every reachable state,
\* and a send issued while a request is pending is rejected: it queues
\* nothing, writes nothing to the PTY, and leaves the pending request, its
\* buffer and its timers as they were.
C4_AtMostOneInFlight ==
    /\ [](Len(pendingRequest) <= 1)
    /\ [][(pendingRequest # <<>> /\ sendResult' # "none") =>
              /\ sendResult' = "rejected"
              /\ UNCHANGED <<pendingRequest, ptyWrites, outputBuffer, lifecycle, idleArmed,
                             idleClock, quietClock, matchSeen, resolution>>]_vars

\* C4 witness: a second send was rejected while the first one, written once
\* to the PTY, awaits its boundary with output already buffered
C4_SecondSendRejected ==
    /\ sendResult = "rejected"
    /\ lifecycle = "AwaitingBoundary"
    /\ Len(pendingRequest) = 1
    /\ ptyWrites = <<pendingRequest[1].prompt>>
    /\ outputBuffer # <<>>

\* C5: the boundary of a pending request is declared by a complete line
\* matching promptPattern, at the moment that line arrives, or by the idle
\* timer, exactly idleTimeout after the last byte with no matching line seen,
\* whichever comes first; neither signal is ever overdue while the request is
\* awaited, and once one has fired the other is cancelled, so the request is
\* resolved once.
C5_BoundaryAtEarlierSignal ==
    /\ resolution.count <= 1
    /\ resolution.by \in {"none", "pattern", "idle", "exit"}
    /\ resolution.by = "pattern" => (resolution.quiet = 0 /\ matchSeen)
    /\ resolution.by = "idle" => (resolution.quiet = idleTimeout /\ ~matchSeen)
    /\ idleArmed => (pendingRequest # <<>> /\ ~matchSeen /\ quietClock <= idleTimeout)
    /\ lifecycle \in {"Sending", "AwaitingBoundary"} => idleArmed
    /\ resolution.count = 1 => (pendingRequest = <<>> /\ ~idleArmed)

\* C5 witness: output arrived, no line matched, and the idle timer resolved
\* the request idleTimeout after the last chunk
C5_IdleFallback ==
    /\ resolution.by = "idle"
    /\ resolution.quiet = idleTimeout
    /\ outputBuffer # <<>>
    /\ lifecycle = "Ready"

-----------------------------------------------------------------------------
(* Properties of the SessionOrchestrator, checked under SpecOrch.           *)

\* C6: with exactly two registered tools a /forward without a tool name goes
\* to the tool that is not active; with three or more registered tools it is
\* sent to no tool.
C6_ForwardAutoTarget ==
    [][(fwdResult'.cmd = "forward" /\ fwdResult'.explicit = NoTool) =>
           /\ Len(registry) = 2 =>
                  /\ fwdResult'.sent
                  /\ fwdResult'.target \in Registered \ {activeTool}
                  /\ inbox'[fwdResult'.target] # "-"
                  /\ \A t \in AllTools \ {fwdResult'.target} : inbox'[t] = inbox[t]
           /\ Len(registry) >= 3 =>
                  /\ ~fwdResult'.sent
                  /\ fwdResult'.target = NoTool
                  /\ inbox' = inbox]_vars

\* C6 witness: with two tools and gemini active, '/forward hello' went to claude
C6_ForwardToTheOther ==
    /\ Len(registry) = 2
    /\ activeTool = "gemini"
    /\ fwdResult = Outcome("forward", NoTool, "claude", TRUE)
    /\ inbox["claude"] = "hello"

\* the tool entries every config carries
DefaultToolEntries == {"claude", "gemini"}

\* C11: loadConfig always returns a complete config: the built-in defaults
\* (defaultTool 'claude') when the file is absent or cannot be parsed; when
\* the file parses, its fields override the defaults, and the default
\* 'claude' and 'gemini' tool entries stay in the merged tools map unless the
\* file overrides them.
C11_LoadConfigComplete ==
    cfgOp.name = "loadConfig" =>
        LET config == cfgRet.config
            file == fileContent
        IN /\ DOMAIN config = {"defaultTool", "tools"}
           /\ DefaultToolEntries \subseteq DOMAIN config.tools
           /\ file.kind \in {"absent", "garbage"} =>
                  /\ config.defaultTool = Claude
                  /\ DOMAIN config.tools = DefaultToolEntries
                  /\ config.tools.claude.command = Claude
                  /\ config.tools.gemini.command = Gemini
                  /\ config = DEFAULT_CONFIG
           /\ file.kind = "json" =>
                  /\ config.defaultTool =
                         IF file.defaultTool.present THEN file.defaultTool.val ELSE Claude
                  /\ \A t \in DOMAIN config.tools :
                         config.tools[t] =
                             IF file.tools.present /\ t \in DOMAIN file.tools.val
                             THEN file.tools.val[t]
                             ELSE DEFAULT_CONFIG.tools[t]
                  /\ file.tools.present => DOMAIN file.tools.val \subseteq DOMAIN config.tools

\* C11 witness: a file that names only a 'codex' tool was loaded, and the
\* merged tools map holds 'codex' beside the default 'claude' and 'gemini'
C11_CodexBesideDefaults ==
    /\ cfgOp.name = "loadConfig"
    /\ fileContent.kind = "json"
    /\ fileContent.tools.present /\ DOMAIN fileContent.tools.val = {"codex"}
    /\ DOMAIN cfgRet.config.tools = {"claude", "gemini", "codex"}
    /\ cfgRet.config.tools.claude = DEFAULT_CONFIG.tools.claude

\* C12: for every name whose lower-case form is 'claude' or 'gemini',
\* setDefaultTool succeeds, creates the config directory first when it is
\* missing, and writes a config whose defaultTool is the lower-case name; a
\* getDefaultTool that follows with AIC_DEFAULT_TOOL unset returns that name.
C12_SetDefaultToolRoundTrip ==
    [][/\ (cfgOp'.name = "setDefaultTool" /\ toLowerCase(cfgOp'.arg) \in {Claude, Gemini}) =>
              /\ cfgRet'.success = "true"
              /\ fsCalls' = IF dirExists THEN <<"writeFileSync">>
                            ELSE <<"mkdirSync", "writeFileSync">>
              /\ dirExists'
              /\ fileContent'.kind = "json"
              /\ fileContent'.defaultTool = Present(toLowerCase(cfgOp'.arg))
       /\ (/\ cfgOp.name = "setDefaultTool" /\ cfgRet.success = "true"
           /\ cfgOp'.name = "getDefaultTool" /\ ~envTool.present) =>
              /\ cfgRet'.text = toLowerCase(cfgOp.arg)
              /\ cfgRet'.text \in {Claude, Gemini}]_vars

\* C12 witness: setDefaultTool('Gemini') succeeded where no config directory
\* existed: the directory was created, then the file written with 'gemini'
C12_MixedCaseSaved ==
    /\ cfgOp.name = "setDefaultTool"
    /\ cfgOp.arg = <<"G", "e", "m", "i", "n", "i">>
    /\ cfgRet.success = "true"
    /\ fsCalls = <<"mkdirSync", "writeFileSync">>
    /\ fileContent.defaultTool = Present(Gemini)

-----------------------------------------------------------------------------
(* Properties of the marker scan and of the stripping stages, checked under *)
(* SpecClean.                                                                *)

\* the capture is one line per odd piece, a marked line or the plain line
\* 'ok', with a line end between two lines, and at least one marked line
MarkedLines(ts) ==
    /\ \A i \in 1..Len(ts) : ts[i] \in (IF i % 2 = 1 THEN {"marked", "text"} ELSE {"nl"})
    /\ \E i \in 1..Len(ts) : ts[i] = "marked"

FirstMarked(ts) == CHOOSE i \in 1..Len(ts) : ts[i] = "marked" /\ \A j \in 1..(i - 1) : ts[j] # "marked"

RECURSIVE CapturedFrom(_, _, _)
\* what the scan is to capture from piece i on, the first marker being piece f:
\* the text after each marker, every other line as it is, a blank line
\* before each further block
CapturedFrom(ts, i, f) ==
    IF i > Len(ts) THEN <<>>
    ELSE (CASE ts[i] = "marked" -> (IF i = f THEN <<>> ELSE <<NL>>) \o TheAnswer
            [] ts[i] = "nl" -> <<NL>>
            [] OTHER -> PieceText(ts[i]))
         \o CapturedFrom(ts, i + 1, f)

\* C13: from the first marker line on, every non-empty line that is not UI
\* chrome appears in the output in its order, however short it is; nothing
\* before the first marker appears; consecutive blocks are joined by one
\* blank line.
C13_LinesAfterMarkerKept ==
    (cpc # "build" /\ MarkedLines(toks)) =>
        cleaned = Trim(CapturedFrom(toks, FirstMarked(toks), FirstMarked(toks)))

RECURSIVE RawOf(_)
\* the raw capture assembled from a sequence of pieces
RawOf(ts) == IF ts = <<>> THEN <<>> ELSE PieceText(Head(ts)) \o RawOf(Tail(ts))

IsNoControlPiece(p) == p \notin ControlPieces

\* C14: every terminal control sequence is stripped before any line pattern
\* is matched: the output holds no escape character and no spinner glyph,
\* and a capture cleans to what the same capture without its control
\* sequences cleans to.
C14_ControlSequencesStripped ==
    cpc # "build" =>
        /\ \A i \in 1..Len(cleaned) : cleaned[i] # ESC /\ cleaned[i] \notin SpinnerFrames
        /\ cleaned = cleanResponse(RawOf(SelectSeq(toks, IsNoControlPiece)))


(***************************************************************************)
(* Properties of the write history and of the built-in defaults, checked   *)
(* under SpecConfig                                                        *)
(***************************************************************************)

\* C15: after any sequence of setDefaultTool calls, valid and invalid names in
\* any order, every config ever written has defaultTool 'claude' or 'gemini',
\* the built-in defaults are never mutated, and whenever the config file is
\* absent loadConfig returns defaultTool 'claude' with the default tool
\* entries.
C15_DefaultsNeverMutated ==
    /\ writtenTools \subseteq {Claude, Gemini}
    /\ fileContent.kind = "json" /\ fsCalls # <<>> =>
          /\ fileContent.defaultTool.present
          /\ fileContent.defaultTool.val \in {Claude, Gemini}
    /\ defaults.defaultTool = Claude
    /\ DOMAIN defaults.tools = DefaultToolEntries
    /\ defaults.tools.claude.command = Claude
    /\ defaults.tools.gemini.command = Gemini
    /\ cfgOp.name = "loadConfig" /\ fileContent.kind = "absent" =>
          /\ cfgRet.config.defaultTool = Claude
          /\ DOMAIN cfgRet.config.tools = DefaultToolEntries
          /\ cfgRet.config.tools.claude.command = Claude
          /\ cfgRet.config.tools.gemini.command = Gemini

\* C15 witness: both tools have been written as the default, the file has
\* been removed since, and loadConfig has just answered from the defaults.
C15_DefaultsAfterWritesAndRemoval ==
    /\ writtenTools = {Claude, Gemini}
    /\ fileContent.kind = "absent"
    /\ cfgOp.name = "loadConfig"
    /\ cfgRet.config.defaultTool = Claude
    /\ DOMAIN cfgRet.config.tools = DefaultToolEntries

=============================================================================
